---------------------------- MODULE Spec2Model ----------------------------
(***************************************************************************)
(* Model of eight-puzzle-astar.py: the EightPuzzle state type, the four    *)
(* heuristic functions and the a_star_solve search loop.                   *)
(*                                                                         *)
(* A grid is the 3x3 numpy array in row-major order, a sequence of nine    *)
(* integers; the cell (row, col), both 0-based as in the source, is the    *)
(* element 3*row + col + 1.  A puzzle is the pair of fields                *)
(* (state, blank_pos) of an EightPuzzle object.                            *)
(***************************************************************************)
EXTENDS Integers, Sequences, FiniteSets, TLC

VARIABLES pc, puzzle, heuristic_func, frontier, explored, explored_nodes,
          g_costs, tie_breaker, result, walked,
          initial_state, experiments, animation, clicks, objects

vars == <<pc, puzzle, heuristic_func, frontier, explored, explored_nodes,
          g_costs, tie_breaker, result, walked,
          initial_state, experiments, animation, clicks, objects>>

(***************************************************************************)
(* Bounds of the model.                                                    *)
(***************************************************************************)
\* initial grids of the search lie within MaxDist moves of the goal
MaxDist == 7
\* the walk of move() calls from the goal grid is at most MaxWalk long
MaxWalk == 26
\* the Next button is clicked at most MaxClicks times while a window is shown
MaxClicks == 19
\* in the model that tells objects apart, the initial grids lie within
\* MaxObjDist moves of the goal and result() is called at most MaxResultCalls
\* times before the search
MaxObjDist == 4
MaxResultCalls == 1

(***************************************************************************)
(* EightPuzzle                                                             *)
(***************************************************************************)
GoalGrid == <<1, 2, 3, 4, 5, 6, 7, 8, 0>>

Directions == {"up", "down", "left", "right"}

Cell(pos) == 3 * pos[1] + pos[2] + 1

At(grid, pos) == grid[Cell(pos)]

Abs(x) == IF x < 0 THEN -x ELSE x

\* np.argwhere(self.state == 0): the cells holding 0, in row-major order
ArgwhereZero(grid) == {i \in 1..9 : grid[i] = 0}

\* np.argwhere(...)[0] raises IndexError when no cell holds 0
CtorRaises(grid) == ArgwhereZero(grid) = {}

FirstZero(grid) ==
    LET zeros == ArgwhereZero(grid)
    IN  CHOOSE i \in zeros : \A j \in zeros : i <= j

\* EightPuzzle.__init__, for a grid on which it does not raise
EightPuzzle(grid) ==
    LET first == FirstZero(grid)
    IN  [state |-> grid,
         blank_pos |-> <<(first - 1) \div 3, (first - 1) % 3>>]

\* Swap that leaves blank_pos as it was
SwapStaleBlank(p, pos1, pos2) ==
    [state |-> [p.state EXCEPT ![Cell(pos1)] = At(p.state, pos2),
                               ![Cell(pos2)] = At(p.state, pos1)],
     blank_pos |-> p.blank_pos]

\* EightPuzzle._swap
Swap(p, pos1, pos2) ==
    [state |-> [p.state EXCEPT ![Cell(pos1)] = At(p.state, pos2),
                               ![Cell(pos2)] = At(p.state, pos1)],
     blank_pos |-> pos2]

\* Move that moves nothing
MoveNothing(p, direction) == p

\* EightPuzzle.move
Move(p, direction) ==
    LET row == p.blank_pos[1]
        col == p.blank_pos[2]
    IN  IF direction = "up" /\ row > 0
          THEN Swap(p, <<row, col>>, <<row - 1, col>>)
        ELSE IF direction = "down" /\ row < 2
          THEN Swap(p, <<row, col>>, <<row + 1, col>>)
        ELSE IF direction = "left" /\ col > 0
          THEN Swap(p, <<row, col>>, <<row, col - 1>>)
        ELSE IF direction = "right" /\ col < 2
          THEN Swap(p, <<row, col>>, <<row, col + 1>>)
        ELSE p

\* EightPuzzle.is_solved
IsSolved(p) == p.state = GoalGrid

\* EightPuzzle.copy: a new object built from a copy of the array
Copy(p) == EightPuzzle(p.state)

\* LegalMoves without its bound tests: all four directions
LegalMovesUnbounded(p) == <<"up", "down", "left", "right">>

\* EightPuzzle.legal_moves: the list, in the order it is appended
LegalMoves(p) ==
    LET row == p.blank_pos[1]
        col == p.blank_pos[2]
    IN  (IF row > 0 THEN <<"up">> ELSE <<>>) \o
        (IF row < 2 THEN <<"down">> ELSE <<>>) \o
        (IF col > 0 THEN <<"left">> ELSE <<>>) \o
        (IF col < 2 THEN <<"right">> ELSE <<>>)

\* EightPuzzle.result
Result(p, move) == Move(Copy(p), move)

\* EightPuzzle.__eq__
Eq(p, other) == p.state = other.state

(***************************************************************************)
(* Heuristics                                                              *)
(***************************************************************************)
\* np.sum(puzzle.state != goal) - 1
HeuristicMisplacedTiles(p) ==
    Cardinality({i \in 1..9 : p.state[i] # GoalGrid[i]}) - 1

\* goal_positions, the dict of heuristic_manhattan_distance
GoalPositions == [tile \in 1..8 |-> <<(tile - 1) \div 3, (tile - 1) % 3>>]

RECURSIVE ManhattanFrom(_, _)
\* the double loop of heuristic_manhattan_distance from cell k on (k = 3i+j+1)
ManhattanFrom(p, k) ==
    IF k > 9 THEN 0
    ELSE LET tile == p.state[k]
             i == (k - 1) \div 3
             j == (k - 1) % 3
         IN  (IF tile # 0
                THEN Abs(i - GoalPositions[tile][1]) + Abs(j - GoalPositions[tile][2])
                ELSE 0)
             + ManhattanFrom(p, k + 1)

HeuristicManhattanDistance(p) == ManhattanFrom(p, 1)

\* the pairs (i, j) of "for i in range(2): for j in range(i + 1, 3)"
LinePairs == {<<0, 1>>, <<0, 2>>, <<1, 2>>}

\* the conflicts counted in one line (a row or a column) against its goal line
LineConflicts(line, goal_line) ==
    2 * Cardinality({ij \in LinePairs :
                        /\ line[ij[1] + 1] \in goal_line
                        /\ line[ij[2] + 1] \in goal_line
                        /\ line[ij[1] + 1] > line[ij[2] + 1]})

RowOf(p, row) == <<At(p.state, <<row, 0>>), At(p.state, <<row, 1>>), At(p.state, <<row, 2>>)>>

ColOf(p, col) == <<At(p.state, <<0, col>>), At(p.state, <<1, col>>), At(p.state, <<2, col>>)>>

GoalRow(row) == {1 + 3 * row, 2 + 3 * row, 3 + 3 * row}

GoalCol(col) == {1 + col, 4 + col, 7 + col}

LinearConflicts(p) ==
    LineConflicts(RowOf(p, 0), GoalRow(0)) + LineConflicts(RowOf(p, 1), GoalRow(1))
    + LineConflicts(RowOf(p, 2), GoalRow(2))
    + LineConflicts(ColOf(p, 0), GoalCol(0)) + LineConflicts(ColOf(p, 1), GoalCol(1))
    + LineConflicts(ColOf(p, 2), GoalCol(2))

\* HeuristicLinearConflict without any information: 0 on every state
HeuristicLinearConflictNone(p) == 0

HeuristicLinearConflict(p) == HeuristicManhattanDistance(p) + LinearConflicts(p)

HeuristicZero(p) == 0

\* the functions a caller can pass as heuristic_func: the four of the source,
\* and one that overestimates (five times the Manhattan distance)
SourceHeuristics == {"heuristic_misplaced_tiles", "heuristic_manhattan_distance",
                     "heuristic_linear_conflict", "heuristic_zero"}

Heuristics == SourceHeuristics \cup {"overestimate"}

\* heuristic_func(new_puzzle)
Heuristic(h, p) ==
    CASE h = "heuristic_misplaced_tiles" -> HeuristicMisplacedTiles(p)
      [] h = "heuristic_manhattan_distance" -> HeuristicManhattanDistance(p)
      [] h = "heuristic_linear_conflict" -> HeuristicLinearConflict(p)
      [] h = "heuristic_zero" -> HeuristicZero(p)
      [] h = "overestimate" -> 5 * HeuristicManhattanDistance(p)

(***************************************************************************)
(* The frontier: heapq on tuples (f_cost, tie_breaker, puzzle, moves).     *)
(* The heap is kept as the sequence of its entries in ascending order, so  *)
(* that heappop takes the head.                                            *)
(***************************************************************************)
\* EntryLess with the order of f_cost reversed: the larger f_cost first
EntryLessLargestFirst(a, b) ==
    \/ a.f_cost > b.f_cost
    \/ a.f_cost = b.f_cost /\ a.tie_breaker < b.tie_breaker

\* tuple comparison of two entries, decided by (f_cost, tie_breaker)
EntryLess(a, b) ==
    \/ a.f_cost < b.f_cost
    \/ a.f_cost = b.f_cost /\ a.tie_breaker < b.tie_breaker

\* heapq.heappush
RECURSIVE InsertionPoint(_, _, _, _)
\* the number of entries of the ascending heap that are below e, found by
\* bisection: heap[1..lo] are below e, heap[hi+1..] are not
InsertionPoint(heap, e, lo, hi) ==
    IF lo = hi THEN lo
    ELSE LET mid == (lo + hi + 1) \div 2
         IN  IF EntryLess(heap[mid], e) THEN InsertionPoint(heap, e, mid, hi)
             ELSE InsertionPoint(heap, e, lo, mid - 1)

HeapPush(heap, e) ==
    LET k == InsertionPoint(heap, e, 0, Len(heap))
    IN  SubSeq(heap, 1, k) \o <<e>> \o SubSeq(heap, k + 1, Len(heap))

Entry(f, t, p, m) == [f_cost |-> f, tie_breaker |-> t, puzzle |-> p, moves |-> m]

\* EightPuzzle.__hash__: a number computed from the bytes of the grid (here
\* from its first three cells), equal for equal grids
Hash(grid) == 81 * grid[1] + 9 * grid[2] + grid[3]

\* A dict keyed by puzzles is a function from hash values to buckets, a
\* bucket being a function from the grids of that hash value to their values.
\* "key in g_costs"
InCosts(costs, key) ==
    Hash(key) \in DOMAIN costs /\ key \in DOMAIN costs[Hash(key)]

\* g_costs[key]
CostOf(costs, key) == costs[Hash(key)][key]

\* g_costs[key] = value
Put(costs, key, value) ==
    IF Hash(key) \notin DOMAIN costs
      THEN costs @@ (Hash(key) :> (key :> value))
    ELSE IF key \in DOMAIN costs[Hash(key)]
      THEN [costs EXCEPT ![Hash(key)][key] = value]
    ELSE [costs EXCEPT ![Hash(key)] = @ @@ (key :> value)]

\* Improves without its test: every successor is recorded and pushed
ImprovesAlways(costs, new_puzzle, new_g_cost) == TRUE

\* "new_puzzle not in g_costs or new_g_cost < g_costs[new_puzzle]"
Improves(costs, new_puzzle, new_g_cost) ==
    \/ ~InCosts(costs, new_puzzle.state)
    \/ new_g_cost < CostOf(costs, new_puzzle.state)

\* f = g + h
FCost(new_g_cost, h, new_puzzle) == new_g_cost + Heuristic(h, new_puzzle)

\* ExtendMoves with the move put in front instead of at the end
ExtendMovesInFront(moves, move) == <<move>> \o moves

\* moves + [move]
ExtendMoves(moves, move) == Append(moves, move)

\* NewGCost without the added move
NewGCostOfParent(costs, current_puzzle) == CostOf(costs, current_puzzle.state)

\* g_costs[current_puzzle] + 1
NewGCost(costs, current_puzzle) == CostOf(costs, current_puzzle.state) + 1

\* NextTieBreaker without the increment
SameTieBreaker(t) == t

\* tie_breaker += 1
NextTieBreaker(t) == t + 1

RECURSIVE ExpandFrom(_, _, _, _)
\* the for loop over current_puzzle.legal_moves(), from its i-th move on; st
\* holds the locals of a_star_solve as the loop has left them
ExpandFrom(cur, h, i, st) ==
    IF i > Len(LegalMoves(cur.puzzle)) THEN st
    ELSE LET move == LegalMoves(cur.puzzle)[i]
             new_puzzle == Result(cur.puzzle, move)
             new_g_cost == NewGCost(st.g_costs, cur.puzzle)
         IN  IF Improves(st.g_costs, new_puzzle, new_g_cost)
               THEN ExpandFrom(cur, h, i + 1,
                      [st EXCEPT
                         !.g_costs = Put(st.g_costs, new_puzzle.state, new_g_cost),
                         !.tie_breaker = NextTieBreaker(st.tie_breaker),
                         !.frontier = HeapPush(st.frontier,
                                        Entry(FCost(new_g_cost, h, new_puzzle),
                                              NextTieBreaker(st.tie_breaker), new_puzzle,
                                              ExtendMoves(cur.moves, move)))])
               ELSE ExpandFrom(cur, h, i + 1, st)

NoResult == [moves |-> <<>>, explored_nodes |-> -1]

\* the locals of a_star_solve when its loop is entered
EnterLoop(p) ==
    [pc |-> "search",
     frontier |-> HeapPush(<<>>, Entry(0, 0, Copy(p), <<>>)),
     explored |-> {},
     explored_nodes |-> 0,
     g_costs |-> Put(<<>>, p.state, 0),
     tie_breaker |-> 0,
     result |-> NoResult]

\* "return moves, explored_nodes"
Return(st, moves) ==
    [st EXCEPT !.pc = "returned",
               !.result = [moves |-> moves, explored_nodes |-> st.explored_nodes]]

\* LoopBody without the test "current_puzzle not in explored": every popped
\* entry that is not the goal is counted, closed and expanded
LoopBodyReexpanding(st, h) ==
    IF st.frontier = <<>> THEN Return(st, <<>>)
    ELSE LET cur == Head(st.frontier)
             popped == [st EXCEPT !.frontier = Tail(st.frontier)]
         IN  IF IsSolved(cur.puzzle) THEN Return(popped, cur.moves)
             ELSE ExpandFrom(cur, h, 1,
                    [popped EXCEPT
                       !.explored = st.explored \cup {cur.puzzle.state},
                       !.explored_nodes = st.explored_nodes + 1])

\* one evaluation of "while frontier:" and of the loop body
LoopBody(st, h) ==
    IF st.frontier = <<>> THEN Return(st, <<>>)
    ELSE LET cur == Head(st.frontier)
             popped == [st EXCEPT !.frontier = Tail(st.frontier)]
         IN  IF IsSolved(cur.puzzle) THEN Return(popped, cur.moves)
             ELSE IF cur.puzzle.state \notin st.explored
               THEN ExpandFrom(cur, h, 1,
                      [popped EXCEPT
                         !.explored = st.explored \cup {cur.puzzle.state},
                         !.explored_nodes = st.explored_nodes + 1])
             ELSE popped

RECURSIVE Iterate(_, _, _)
\* n evaluations of the loop, or as many as lead to the return
Iterate(st, h, n) ==
    IF st.pc = "returned" THEN st
    ELSE IF n = 1 THEN LoopBody(st, h)
    ELSE LET half == Iterate(st, h, n \div 2)
         IN  Iterate(half, h, n - n \div 2)

RECURSIVE RunLoop(_, _, _)
\* the loop run until it returns, n evaluations and then twice as many at a time
RunLoop(st, h, n) ==
    LET after == Iterate(st, h, n)
    IN  IF after.pc = "returned" THEN after ELSE RunLoop(after, h, 2 * n)

\* a_star_solve(puzzle, heuristic_func): the pair it returns
AStarSolve(p, h) == RunLoop(EnterLoop(p), h, 1).result

(***************************************************************************)
(* Inputs                                                                  *)
(***************************************************************************)
RECURSIVE BallFrom(_, _)
\* the grids that r or fewer moves of the blank produce from the grids of S
BallFrom(S, r) ==
    IF r = 0 THEN S
    ELSE LET B == BallFrom(S, r - 1)
         IN  B \cup {Move(EightPuzzle(g), d).state : g \in B, d \in Directions}

\* the grids at most MaxDist moves from the goal
NearGrids == BallFrom({GoalGrid}, MaxDist)

\* initial_state of the main block
FixtureGrid == <<1, 3, 6, 5, 4, 7, 2, 0, 8>>

\* malformed grids: no blank; a wrong value set with one blank; two blanks
NoBlankGrid == <<1, 2, 3, 4, 5, 6, 7, 8, 8>>

RepeatedTileGrid == <<1, 1, 1, 1, 1, 1, 1, 1, 0>>

TwoBlankGrid == <<1, 1, 1, 1, 1, 1, 1, 0, 0>>

MalformedGrids == {NoBlankGrid, RepeatedTileGrid, TwoBlankGrid}

\* a solvable grid 22 moves from the goal
ConflictGrid == <<0, 3, 2, 6, 1, 5, 7, 4, 8>>

InputGrids == NearGrids \cup {FixtureGrid} \cup MalformedGrids

\* a grid holding each of 0..8 exactly once
IsValidGrid(grid) == Len(grid) = 9 /\ {grid[i] : i \in 1..9} = 0..8

\* the heuristics run on a grid: every one on the near and the malformed grids;
\* from the fixture grid all but the zero heuristic, whose search expands
\* 15763 states
HeuristicsFor(grid) ==
    IF grid = FixtureGrid THEN Heuristics \ {"heuristic_zero"} ELSE Heuristics

(***************************************************************************)
(* State machine                                                           *)
(***************************************************************************)
NoPuzzle == [state |-> <<>>, blank_pos |-> <<>>]

\* no window is shown
NoAnimation == [puzzle |-> NoPuzzle, solution_moves |-> <<>>, step_counter |-> 0]

Init ==
    /\ pc = "new"
    /\ puzzle = NoPuzzle
    /\ heuristic_func = "none"
    /\ frontier = <<>>
    /\ explored = {}
    /\ explored_nodes = 0
    /\ g_costs = <<>>
    /\ tie_breaker = 0
    /\ result = NoResult
    /\ walked = 0
    /\ initial_state = <<>>
    /\ experiments = <<>>
    /\ animation = NoAnimation
    /\ clicks = 0
    /\ objects = <<>>

searchVars == <<heuristic_func, frontier, explored, explored_nodes, g_costs,
                tie_breaker, result>>

mainVars == <<initial_state, experiments, animation, clicks>>


\* EightPuzzle(initial_state) on a grid that has a blank
Construct(grid) ==
    /\ pc = "new"
    /\ ~CtorRaises(grid)
    /\ puzzle' = EightPuzzle(grid)
    /\ pc' = "ready"
    /\ UNCHANGED <<searchVars, walked, mainVars, objects>>

\* EightPuzzle(initial_state) on a grid without a blank: IndexError
ConstructRaises(grid) ==
    /\ pc = "new"
    /\ CtorRaises(grid)
    /\ pc' = "error"
    /\ UNCHANGED <<puzzle, searchVars, walked, mainVars, objects>>

\* the locals of the call of a_star_solve in progress
Locals ==
    [pc |-> pc, frontier |-> frontier, explored |-> explored,
     explored_nodes |-> explored_nodes, g_costs |-> g_costs,
     tie_breaker |-> tie_breaker, result |-> result]

Assign(st) ==
    /\ pc' = st.pc
    /\ frontier' = st.frontier
    /\ explored' = st.explored
    /\ explored_nodes' = st.explored_nodes
    /\ g_costs' = st.g_costs
    /\ tie_breaker' = st.tie_breaker
    /\ result' = st.result

\* a_star_solve(puzzle, heuristic_func) up to its loop
Call(h) ==
    /\ pc = "ready"
    /\ heuristic_func' = h
    /\ Assign(EnterLoop(puzzle))
    /\ UNCHANGED <<puzzle, walked, mainVars, objects>>

\* the popped entry is the goal: return moves, explored_nodes
ReturnSolved ==
    /\ pc = "search"
    /\ frontier # <<>>
    /\ IsSolved(Head(frontier).puzzle)
    /\ Assign(LoopBody(Locals, heuristic_func))
    /\ UNCHANGED <<puzzle, heuristic_func, walked, mainVars, objects>>

\* the popped entry is not yet explored: close it and push its successors
Expand ==
    /\ pc = "search"
    /\ frontier # <<>>
    /\ ~IsSolved(Head(frontier).puzzle)
    /\ Head(frontier).puzzle.state \notin explored
    /\ Assign(LoopBody(Locals, heuristic_func))
    /\ UNCHANGED <<puzzle, heuristic_func, walked, mainVars, objects>>

\* the popped entry is already explored: it is dropped
SkipStale ==
    /\ pc = "search"
    /\ frontier # <<>>
    /\ ~IsSolved(Head(frontier).puzzle)
    /\ Head(frontier).puzzle.state \in explored
    /\ Assign(LoopBody(Locals, heuristic_func))
    /\ UNCHANGED <<puzzle, heuristic_func, walked, mainVars, objects>>

\* the frontier is empty: return [], explored_nodes
ReturnEmpty ==
    /\ pc = "search"
    /\ frontier = <<>>
    /\ Assign(LoopBody(Locals, heuristic_func))
    /\ UNCHANGED <<puzzle, heuristic_func, walked, mainVars, objects>>

\* a_star_solve(puzzle, heuristic_func) from call to return; its locals are
\* gone when it has returned
Solve(h) ==
    /\ pc = "ready"
    /\ heuristic_func' = h
    /\ result' = AStarSolve(puzzle, h)
    /\ pc' = "returned"
    /\ UNCHANGED <<puzzle, frontier, explored, explored_nodes, g_costs,
                   tie_breaker, walked, mainVars, objects>>

Next ==
    \/ \E grid \in InputGrids : Construct(grid)
    \/ \E grid \in InputGrids : ConstructRaises(grid)
    \/ \E h \in HeuristicsFor(puzzle.state) : Call(h)
    \/ ReturnSolved
    \/ Expand
    \/ SkipStale
    \/ ReturnEmpty

Spec == Init /\ [][Next]_vars

\* whole calls of a_star_solve, also from ConflictGrid with the
\* linear-conflict heuristic
SolveHeuristicsFor(grid) ==
    IF grid = ConflictGrid THEN {"heuristic_linear_conflict"} ELSE HeuristicsFor(grid)

NextSolve ==
    \/ \E grid \in InputGrids \cup {ConflictGrid} : Construct(grid)
    \/ \E grid \in InputGrids \cup {ConflictGrid} : ConstructRaises(grid)
    \/ \E h \in SolveHeuristicsFor(puzzle.state) : Solve(h)

SpecSolve == Init /\ [][NextSolve]_vars

(***************************************************************************)
(* Walk: move() called on a puzzle that starts at the goal grid.  walked   *)
(* counts the calls that moved the blank, so the grid reached is at most   *)
(* walked moves away from the goal.                                        *)
(***************************************************************************)
InitWalk ==
    /\ pc = "walk"
    /\ puzzle = EightPuzzle(GoalGrid)
    /\ heuristic_func = "none"
    /\ frontier = <<>>
    /\ explored = {}
    /\ explored_nodes = 0
    /\ g_costs = <<>>
    /\ tie_breaker = 0
    /\ result = NoResult
    /\ walked = 0
    /\ initial_state = <<>>
    /\ experiments = <<>>
    /\ animation = NoAnimation
    /\ clicks = 0
    /\ objects = <<>>

\* puzzle.move(direction)
WalkMove(direction) ==
    /\ pc = "walk"
    /\ walked < MaxWalk
    /\ puzzle' = Move(puzzle, direction)
    /\ walked' = IF puzzle' # puzzle THEN walked + 1 ELSE walked
    /\ UNCHANGED <<pc, searchVars, mainVars, objects>>

NextWalk == \E direction \in Directions : WalkMove(direction)

SpecWalk == InitWalk /\ [][NextWalk]_vars

(***************************************************************************)
(* The main block and the animation window.  experiments records, for each *)
(* iteration of the loop over the heuristics, what a_star_solve returned;  *)
(* animation holds the locals of manual_animation_with_button while its    *)
(* window is shown; clicks counts the clicks on the Next button.           *)
(***************************************************************************)
\* the list that the for loop of the main block runs over
MainHeuristics == <<"heuristic_misplaced_tiles", "heuristic_manhattan_distance",
                    "heuristic_linear_conflict", "heuristic_zero">>

\* manual_animation_with_button up to plt.show(): a fresh puzzle built from
\* the initial grid and a step counter of 0
ManualAnimationWithButton(puzzle_initial_state, solution_moves) ==
    [puzzle |-> EightPuzzle(puzzle_initial_state),
     solution_moves |-> solution_moves,
     step_counter |-> 0]

\* OnClick without "step_counter[0] += 1"
OnClickNoIncrement(a) ==
    IF a.step_counter < Len(a.solution_moves)
      THEN [a EXCEPT !.puzzle = Move(a.puzzle, a.solution_moves[a.step_counter + 1])]
      ELSE a

\* on_click; solution_moves[step_counter[0]] is 0-based
OnClick(a) ==
    IF a.step_counter < Len(a.solution_moves)
      THEN [a EXCEPT !.puzzle = Move(a.puzzle, a.solution_moves[a.step_counter + 1]),
                     !.step_counter = a.step_counter + 1]
      ELSE a

InitMain ==
    /\ pc = "main"
    /\ initial_state \in InputGrids
    /\ puzzle = NoPuzzle
    /\ heuristic_func = "none"
    /\ frontier = <<>>
    /\ explored = {}
    /\ explored_nodes = 0
    /\ g_costs = <<>>
    /\ tie_breaker = 0
    /\ result = NoResult
    /\ walked = 0
    /\ experiments = <<>>
    /\ animation = NoAnimation
    /\ clicks = 0
    /\ objects = <<>>

\* one iteration of the for loop, up to plt.show() when a solution was found
\* and to its end otherwise
Experiment ==
    /\ pc = "main"
    /\ Len(experiments) < Len(MainHeuristics)
    /\ ~CtorRaises(initial_state)
    /\ heuristic_func' = MainHeuristics[Len(experiments) + 1]
    /\ puzzle' = EightPuzzle(initial_state)
    /\ result' = AStarSolve(puzzle', heuristic_func')
    /\ experiments' = Append(experiments,
                             [heuristic |-> heuristic_func',
                              solution_moves |-> result'.moves,
                              explored_nodes |-> result'.explored_nodes])
    /\ IF result'.moves # <<>>
         THEN /\ pc' = "show"
              /\ animation' = ManualAnimationWithButton(initial_state, result'.moves)
         ELSE /\ pc' = "main"
              /\ animation' = animation
    /\ UNCHANGED <<frontier, explored, explored_nodes, g_costs, tie_breaker,
                   walked, initial_state, clicks, objects>>

\* EightPuzzle(initial_state.copy()) raises IndexError
ExperimentRaises ==
    /\ pc = "main"
    /\ Len(experiments) < Len(MainHeuristics)
    /\ CtorRaises(initial_state)
    /\ pc' = "error"
    /\ UNCHANGED <<puzzle, searchVars, walked, mainVars, objects>>

\* a click on the Next button while the window is shown
Click ==
    /\ pc = "show"
    /\ clicks < MaxClicks
    /\ animation' = OnClick(animation)
    /\ clicks' = clicks + 1
    /\ UNCHANGED <<pc, puzzle, searchVars, walked, initial_state, experiments, objects>>

\* the window is closed: plt.show() returns and the for loop goes on
CloseWindow ==
    /\ pc = "show"
    /\ pc' = "main"
    /\ animation' = NoAnimation
    /\ clicks' = 0
    /\ UNCHANGED <<puzzle, searchVars, walked, initial_state, experiments, objects>>

NextMain ==
    \/ Experiment
    \/ ExperimentRaises
    \/ Click
    \/ CloseWindow

SpecMain == InitMain /\ [][NextMain]_vars

(***************************************************************************)
(* Objects.  Here the EightPuzzle objects are told apart: objects is the   *)
(* store of all objects made so far, a reference is an index into it,      *)
(* move() changes the object it is called on in place, and copy() makes a  *)
(* new object.  The frontier entries, the closed set and the cost map hold *)
(* references.  A set or dict member keeps the hash value its key had when *)
(* it was inserted; a lookup finds a member whose stored hash value is the *)
(* hash value of the key looked up and whose key is that object or         *)
(* compares equal to it.                                                   *)
(***************************************************************************)
\* copy() that returns the receiver itself instead of a new object
ObjCopyAlias(objs, ref) == [objects |-> objs, ref |-> ref]

\* self.copy(): the store with the new object, and the reference to it
ObjCopy(objs, ref) ==
    [objects |-> Append(objs, EightPuzzle(objs[ref].state)),
     ref |-> Len(objs) + 1]

\* self.move(direction): the object is changed in place
ObjMove(objs, ref, direction) ==
    [objs EXCEPT ![ref] = Move(objs[ref], direction)]

\* self.result(move)
ObjResult(objs, ref, move) ==
    LET new_puzzle == ObjCopy(objs, ref)
    IN  [objects |-> ObjMove(new_puzzle.objects, new_puzzle.ref, move),
         ref |-> new_puzzle.ref]

\* the members of a set or dict that a lookup of the object ref finds
ObjFound(objs, table, ref) ==
    {m \in table : /\ m.hash = Hash(objs[ref].state)
                   /\ (m.ref = ref \/ Eq(objs[m.ref], objs[ref]))}

\* "ref in table"
ObjIn(objs, table, ref) == ObjFound(objs, table, ref) # {}

\* g_costs[ref], for a key that is found
ObjCostOf(objs, costs, ref) == (CHOOSE m \in ObjFound(objs, costs, ref) : TRUE).cost

\* g_costs[ref] = value: the value of the member found is replaced, or a
\* member is added with the hash value the key has now
ObjPut(objs, costs, ref, value) ==
    IF ObjIn(objs, costs, ref)
      THEN LET m == CHOOSE m \in ObjFound(objs, costs, ref) : TRUE
           IN  (costs \ {m}) \cup {[m EXCEPT !.cost = value]}
      ELSE costs \cup {[hash |-> Hash(objs[ref].state), ref |-> ref, cost |-> value]}

\* explored.add(ref)
ObjAdd(objs, set, ref) ==
    IF ObjIn(objs, set, ref) THEN set
    ELSE set \cup {[hash |-> Hash(objs[ref].state), ref |-> ref]}

RECURSIVE ObjExpandFrom(_, _, _, _)
\* the for loop over the list that current_puzzle.legal_moves() returned,
\* from the first of moves on; g_costs[current_puzzle] raises KeyError when
\* the key is not found
ObjExpandFrom(cur, h, moves, st) ==
    IF moves = <<>> \/ st.pc = "error" THEN st
    ELSE LET new_puzzle == ObjResult(st.objects, cur.puzzle, Head(moves))
             objs == new_puzzle.objects
             made == [st EXCEPT !.objects = objs]
         IN  IF ~ObjIn(objs, st.g_costs, cur.puzzle)
               THEN [made EXCEPT !.pc = "error"]
             ELSE LET new_g_cost == ObjCostOf(objs, st.g_costs, cur.puzzle) + 1
                  IN  IF \/ ~ObjIn(objs, st.g_costs, new_puzzle.ref)
                         \/ new_g_cost < ObjCostOf(objs, st.g_costs, new_puzzle.ref)
                        THEN ObjExpandFrom(cur, h, Tail(moves),
                               [made EXCEPT
                                  !.g_costs = ObjPut(objs, st.g_costs, new_puzzle.ref,
                                                     new_g_cost),
                                  !.tie_breaker = NextTieBreaker(st.tie_breaker),
                                  !.frontier =
                                     HeapPush(st.frontier,
                                       Entry(FCost(new_g_cost, h, objs[new_puzzle.ref]),
                                             NextTieBreaker(st.tie_breaker),
                                             new_puzzle.ref,
                                             ExtendMoves(cur.moves, Head(moves))))])
                        ELSE ObjExpandFrom(cur, h, Tail(moves), made)

\* a_star_solve(puzzle, heuristic_func) up to its loop, puzzle being a
\* reference: the initial entry holds a copy, the cost map the caller's object
ObjEnterLoop(objs, ref) ==
    LET copied == ObjCopy(objs, ref)
    IN  [pc |-> "search",
         objects |-> copied.objects,
         frontier |-> HeapPush(<<>>, Entry(0, 0, copied.ref, <<>>)),
         explored |-> {},
         explored_nodes |-> 0,
         g_costs |-> ObjPut(copied.objects, {}, ref, 0),
         tie_breaker |-> 0,
         result |-> NoResult]

\* one evaluation of "while frontier:" and of the loop body
ObjLoopBody(st, h) ==
    IF st.frontier = <<>> THEN Return(st, <<>>)
    ELSE LET cur == Head(st.frontier)
             popped == [st EXCEPT !.frontier = Tail(st.frontier)]
         IN  IF IsSolved(st.objects[cur.puzzle]) THEN Return(popped, cur.moves)
             ELSE IF ~ObjIn(st.objects, st.explored, cur.puzzle)
               THEN ObjExpandFrom(cur, h, LegalMoves(st.objects[cur.puzzle]),
                      [popped EXCEPT
                         !.explored = ObjAdd(st.objects, st.explored, cur.puzzle),
                         !.explored_nodes = st.explored_nodes + 1])
             ELSE popped

\* the initial grids of the model that tells objects apart
ObjGrids == BallFrom({GoalGrid}, MaxObjDist)

\* one EightPuzzle has been constructed; puzzle is the reference to it
InitObjects ==
    /\ pc = "ready"
    /\ \E grid \in ObjGrids : objects = <<EightPuzzle(grid)>>
    /\ puzzle = 1
    /\ heuristic_func = "none"
    /\ frontier = <<>>
    /\ explored = {}
    /\ explored_nodes = 0
    /\ g_costs = {}
    /\ tie_breaker = 0
    /\ result = NoResult
    /\ walked = 0
    /\ initial_state = <<>>
    /\ experiments = <<>>
    /\ animation = NoAnimation
    /\ clicks = 0

\* the caller calls result(direction) on an object, with a direction that is
\* legal, illegal or unknown
CallResult(ref, direction) ==
    /\ pc = "ready"
    /\ Len(objects) <= MaxResultCalls
    /\ objects' = ObjResult(objects, ref, direction).objects
    /\ UNCHANGED <<pc, puzzle, searchVars, walked, mainVars>>

ObjLocals ==
    [pc |-> pc, objects |-> objects, frontier |-> frontier, explored |-> explored,
     explored_nodes |-> explored_nodes, g_costs |-> g_costs,
     tie_breaker |-> tie_breaker, result |-> result]

ObjAssign(st) ==
    /\ pc' = st.pc
    /\ objects' = st.objects
    /\ frontier' = st.frontier
    /\ explored' = st.explored
    /\ explored_nodes' = st.explored_nodes
    /\ g_costs' = st.g_costs
    /\ tie_breaker' = st.tie_breaker
    /\ result' = st.result

\* a_star_solve(puzzle, heuristic_func) up to its loop
ObjCall(h) ==
    /\ pc = "ready"
    /\ heuristic_func' = h
    /\ ObjAssign(ObjEnterLoop(objects, puzzle))
    /\ UNCHANGED <<puzzle, walked, mainVars>>

\* one evaluation of the loop: return, expansion or stale pop
ObjLoop ==
    /\ pc = "search"
    /\ ObjAssign(ObjLoopBody(ObjLocals, heuristic_func))
    /\ UNCHANGED <<puzzle, heuristic_func, walked, mainVars>>

NextObjects ==
    \/ \E ref \in DOMAIN objects, direction \in Directions \cup {"diagonal"} :
          CallResult(ref, direction)
    \/ \E h \in Heuristics : ObjCall(h)
    \/ ObjLoop

SpecObjects == InitObjects /\ [][NextObjects]_vars

(***************************************************************************)
(* Properties of the heuristics                                            *)
(***************************************************************************)
\* C4: on every grid that a walk of legal moves from the goal reaches, the
\* misplaced-tiles, Manhattan and linear-conflict values are at most the
\* length of that walk, hence at most the least number of moves to the goal.
C4_Admissible ==
    pc = "walk" =>
        /\ HeuristicMisplacedTiles(puzzle) <= walked
        /\ HeuristicManhattanDistance(puzzle) <= walked
        /\ HeuristicLinearConflict(puzzle) <= walked

\* the cells holding a tile, not the blank, that differs from the goal's
MisplacedCells(p) == {i \in 1..9 : p.state[i] # 0 /\ p.state[i] # GoalGrid[i]}

\* C5: heuristic_misplaced_tiles is the number of cells holding a non-blank
\* tile that differs from the goal grid's, also when the blank is at (2,2).
C5_MisplacedCount ==
    pc = "walk" => HeuristicMisplacedTiles(puzzle) = Cardinality(MisplacedCells(puzzle))

\* C6: each of the four heuristics is non-negative on every valid state.
C6_NonNegative ==
    pc = "walk" => \A h \in SourceHeuristics : Heuristic(h, puzzle) >= 0

(***************************************************************************)
(* Properties of EightPuzzle                                               *)
(***************************************************************************)
\* the grid of p holds each of 0..8 once and blank_pos is the cell holding 0
WellFormed(p) ==
    /\ IsValidGrid(p.state)
    /\ p.blank_pos \in (0..2) \X (0..2)
    /\ At(p.state, p.blank_pos) = 0

\* C12: after any sequence of move() calls from a valid grid, with legal and
\* illegal directions, and in what result() returns for any direction, the
\* grid holds each of 0..8 exactly once and blank_pos is the cell holding 0.
C12_GridInvariant ==
    pc = "walk" =>
        /\ WellFormed(puzzle)
        /\ \A d \in Directions \cup {"diagonal"} : WellFormed(Result(puzzle, d))

C12_Witness ==
    /\ pc = "walk"
    /\ walked > MaxDist
    /\ puzzle.blank_pos = <<0, 0>>
    /\ Move(puzzle, "up") = puzzle
    /\ WellFormed(Result(puzzle, "down"))

Opposite(d) ==
    CASE d = "up" -> "down"
      [] d = "down" -> "up"
      [] d = "left" -> "right"
      [] d = "right" -> "left"

\* the directions that legal_moves() returns
LegalSet(p) == {LegalMoves(p)[i] : i \in 1..Len(LegalMoves(p))}

\* C13: for every state s that a walk reaches and every d of s.legal_moves(),
\* s.result(d).result(opposite(d)) equals s.
C13_OppositeUndoes ==
    pc = "walk" =>
        \A d \in LegalSet(puzzle) : Eq(Result(Result(puzzle, d), Opposite(d)), puzzle)

C13_Witness ==
    /\ pc = "walk"
    /\ walked > 0
    /\ Len(LegalMoves(puzzle)) = 4
    /\ ~Eq(Result(puzzle, "left"), puzzle)
    /\ Eq(Result(Result(puzzle, "left"), "right"), puzzle)

\* C14: legal_moves() returns 2 to 4 distinct directions, "up" iff the blank
\* row is above 0, "down" iff it is below 2, "left" iff the blank column is
\* above 0, "right" iff it is below 2; the result of every returned move
\* differs from the state and has its blank in rows 0..2 and columns 0..2.
C14_LegalMoves ==
    pc = "walk" =>
        /\ Len(LegalMoves(puzzle)) \in 2..4
        /\ Cardinality(LegalSet(puzzle)) = Len(LegalMoves(puzzle))
        /\ LegalSet(puzzle) \subseteq Directions
        /\ ("up" \in LegalSet(puzzle)) <=> (puzzle.blank_pos[1] > 0)
        /\ ("down" \in LegalSet(puzzle)) <=> (puzzle.blank_pos[1] < 2)
        /\ ("left" \in LegalSet(puzzle)) <=> (puzzle.blank_pos[2] > 0)
        /\ ("right" \in LegalSet(puzzle)) <=> (puzzle.blank_pos[2] < 2)
        /\ \A d \in LegalSet(puzzle) :
              LET new_puzzle == Result(puzzle, d)
              IN  /\ ~Eq(new_puzzle, puzzle)
                  /\ new_puzzle.blank_pos \in (0..2) \X (0..2)
                  /\ At(new_puzzle.state, new_puzzle.blank_pos) = 0

C14_Witness ==
    /\ pc = "walk"
    /\ walked > 0
    /\ puzzle.blank_pos = <<0, 1>>
    /\ LegalMoves(puzzle) = <<"down", "left", "right">>
    /\ Result(puzzle, "down").blank_pos = <<1, 1>>

(***************************************************************************)
(* Reference notions for the properties of the search                      *)
(***************************************************************************)
\* the pairs of tiles (blank left out) that stand in reversed order
Inversions(grid) ==
    {ij \in (1..9) \X (1..9) :
        /\ ij[1] < ij[2]
        /\ grid[ij[1]] # 0 /\ grid[ij[2]] # 0
        /\ grid[ij[1]] > grid[ij[2]]}

\* a valid grid of even permutation parity relative to the goal
Solvable(grid) == IsValidGrid(grid) /\ Cardinality(Inversions(grid)) % 2 = 0

RECURSIVE MinMovesFrom(_, _)
\* the least k >= k0 such that k legal moves lead from grid to the goal: a
\* path of k moves has a grid (k+1) \div 2 moves from the goal and k \div 2
\* moves from grid, every move having its opposite (grid must be solvable)
MinMovesFrom(grid, k) ==
    IF BallFrom({GoalGrid}, (k + 1) \div 2) \cap BallFrom({grid}, k \div 2) # {}
      THEN k
      ELSE MinMovesFrom(grid, k + 1)

MinMoves(grid) == MinMovesFrom(grid, 0)

RECURSIVE BFSFrom(_, _, _)
\* breadth-first search over legal moves: the depth at which the goal is
\* first met, level being the grids first met at this depth
BFSFrom(level, seen, depth) ==
    IF GoalGrid \in level THEN depth
    ELSE IF level = {} THEN -1
    ELSE LET next == {Move(EightPuzzle(g), d).state : g \in level, d \in Directions}
                       \ seen
         IN  BFSFrom(next, seen \cup next, depth + 1)

BFSLength(grid) == BFSFrom({grid}, {grid}, 0)

RECURSIVE ApplyMoves(_, _)
\* puzzle.move(m) for each m of moves, in order
ApplyMoves(p, moves) ==
    IF moves = <<>> THEN p ELSE ApplyMoves(Move(p, Head(moves)), Tail(moves))

RECURSIVE AllLegal(_, _)
\* every move of moves is in legal_moves() of the state it is applied to
AllLegal(p, moves) ==
    \/ moves = <<>>
    \/ /\ \E i \in 1..Len(LegalMoves(p)) : LegalMoves(p)[i] = Head(moves)
       /\ AllLegal(Move(p, Head(moves)), Tail(moves))

Returned == pc = "returned"

(***************************************************************************)
(* Properties of a_star_solve                                              *)
(***************************************************************************)
\* C1: from a solvable initial state, with each of the four heuristics,
\* a_star_solve returns a move sequence whose length is the least number of
\* legal moves from the initial state to the goal (so the four lengths agree).
C1_OptimalLength ==
    (Returned /\ Solvable(puzzle.state) /\ heuristic_func \in SourceHeuristics)
        => Len(result.moves) = MinMoves(puzzle.state)

\* C2: from a solvable initial state other than the goal, with each of the
\* four heuristics, the returned sequence is non-empty, each move is legal
\* where it is applied, and the moves lead from the initial grid to the goal.
C2_SolutionReachesGoal ==
    (Returned /\ Solvable(puzzle.state) /\ puzzle.state # GoalGrid
       /\ heuristic_func \in SourceHeuristics)
        => /\ result.moves # <<>>
           /\ AllLegal(puzzle, result.moves)
           /\ ApplyMoves(puzzle, result.moves).state = GoalGrid

C2_Witness ==
    /\ Returned
    /\ puzzle.state = FixtureGrid
    /\ heuristic_func = "heuristic_linear_conflict"
    /\ Len(result.moves) > 1
    /\ ApplyMoves(puzzle, result.moves).state = GoalGrid

\* C3: with heuristic_zero, from a solvable initial state, the length of the
\* returned sequence is the shortest-path length that breadth-first search
\* over legal moves finds from the initial state to the goal.
C3_ZeroIsShortest ==
    (Returned /\ Solvable(puzzle.state) /\ heuristic_func = "heuristic_zero")
        => Len(result.moves) = BFSLength(puzzle.state)

C3_Witness ==
    /\ Returned
    /\ heuristic_func = "heuristic_zero"
    /\ Solvable(puzzle.state)
    /\ Len(result.moves) = MaxDist
    /\ explored_nodes > MaxDist

\* C8: a_star_solve returns the empty sequence only when the goal is not
\* reachable: from every initial state from which the goal is reachable, the
\* goal itself included, the returned sequence is not empty.
C8_EmptyOnlyIfUnreachable ==
    (Returned /\ Solvable(puzzle.state)) => result.moves # <<>>

\* C10: constructing an EightPuzzle from an invalid grid fails, so no puzzle
\* exists, and no search runs, on a grid that is not one each of 0..8.
C10_InvalidGridRejected ==
    pc \in {"ready", "search", "returned"} => IsValidGrid(puzzle.state)

\* the entries that a step has put on the frontier
Pushed == {frontier'[i] : i \in 1..Len(frontier')} \ {frontier[i] : i \in 1..Len(frontier)}

\* a state is pushed only when it had no recorded cost or its cost improves
PushOnlyImproves ==
    \A e \in Pushed :
        \/ ~InCosts(g_costs, e.puzzle.state)
        \/ CostOf(g_costs', e.puzzle.state) < CostOf(g_costs, e.puzzle.state)

\* grid g holds the values of grid g0, each as often as g0 holds it
SameTiles(g, g0) ==
    \A v \in {g0[i] : i \in 1..9} \cup {g[i] : i \in 1..9} :
        Cardinality({i \in 1..9 : g[i] = v}) = Cardinality({i \in 1..9 : g0[i] = v})

\* an evaluation of the loop returns, or closes one more arrangement of the
\* tiles of the initial grid, or closes nothing and shortens the frontier:
\* the arrangements being finitely many, the loop cannot go on for ever
LoopProgress ==
    pc = "search" =>
        \/ pc' = "returned"
        \/ /\ explored' # explored
           /\ explored \subseteq explored'
           /\ \A g \in explored' \ explored : SameTiles(g, puzzle.state)
        \/ /\ explored' = explored
           /\ Len(frontier') < Len(frontier)

\* C9: from every valid initial state and with every heuristic, admissible
\* or not, the loop of a_star_solve ends: each evaluation of it makes
\* progress towards the return (LoopProgress); a state is pushed only when its
\* recorded cost is absent or strictly improves; and when the goal is
\* reachable, the returned moves lead from the initial grid to the goal.
C9_Terminates ==
    /\ [][LoopProgress]_vars
    /\ [][PushOnlyImproves]_vars
    /\ [](Returned /\ Solvable(puzzle.state)
            => ApplyMoves(puzzle, result.moves).state = GoalGrid)

C9_Witness ==
    /\ Returned
    /\ heuristic_func = "overestimate"
    /\ Solvable(puzzle.state)
    /\ ApplyMoves(puzzle, result.moves).state = GoalGrid
    /\ Len(result.moves) > MinMoves(puzzle.state)

(***************************************************************************)
(* Properties of the frontier and of the closed set                        *)
(***************************************************************************)
\* the entries on the frontier
Entries == {frontier[i] : i \in 1..Len(frontier)}

\* C15: every entry on the frontier, the entry for the initial state
\* included, carries f_cost = len(moves) + heuristic_func(state).
C15_FCostIsGPlusH ==
    pc = "search" =>
        \A e \in Entries :
            e.f_cost = Len(e.moves) + Heuristic(heuristic_func, e.puzzle)

\* the entry about to be popped
Popped == Head(frontier)

\* a stale entry is popped: nothing is pushed, and neither the cost map, the
\* counter nor the closed set changes
StalePopChangesNothing ==
    (pc = "search" /\ frontier # <<>> /\ ~IsSolved(Popped.puzzle)
       /\ Popped.puzzle.state \in explored)
        => /\ frontier' = Tail(frontier)
           /\ g_costs' = g_costs
           /\ explored_nodes' = explored_nodes
           /\ explored' = explored
           /\ pc' = "search"

\* the goal is popped: it is returned with the counter as it was, and is
\* neither counted nor closed
GoalPopNotCounted ==
    (pc = "search" /\ frontier # <<>> /\ IsSolved(Popped.puzzle))
        => /\ pc' = "returned"
           /\ result' = [moves |-> Popped.moves, explored_nodes |-> explored_nodes]
           /\ explored_nodes' = explored_nodes
           /\ explored' = explored

\* a step that pushes or that changes the closed set, the counter or the cost
\* map is the expansion of a state that was not closed: that one state is
\* closed and counted
ExpandsOnlyUnclosed ==
    (pc = "search" /\ (Pushed # {} \/ explored' # explored
                        \/ explored_nodes' # explored_nodes \/ g_costs' # g_costs))
        => /\ Popped.puzzle.state \notin explored
           /\ explored' = explored \cup {Popped.puzzle.state}
           /\ explored_nodes' = explored_nodes + 1

\* C16: each state is closed and expanded at most once; a popped entry whose
\* state is already closed pushes nothing and changes neither the cost map
\* nor the counter; explored_nodes is the size of the closed set; a popped
\* goal state is returned without being counted or closed.
C16_ClosedOnce ==
    /\ [](pc \in {"search", "returned"} =>
            /\ explored_nodes = Cardinality(explored)
            /\ GoalGrid \notin explored)
    /\ [][StalePopChangesNothing]_vars
    /\ [][GoalPopNotCounted]_vars
    /\ [][ExpandsOnlyUnclosed]_vars

C16_Witness ==
    /\ pc = "search"
    /\ frontier # <<>>
    /\ Popped.puzzle.state \in explored
    /\ ~IsSolved(Popped.puzzle)
    /\ InCosts(g_costs, Popped.puzzle.state)
    /\ CostOf(g_costs, Popped.puzzle.state) < Len(Popped.moves)
    /\ explored_nodes = Cardinality(explored)

\* the entries pushed by a step carry the values that the counter took in it
PushedTiesFresh ==
    pc = "search" =>
        /\ tie_breaker' >= tie_breaker
        /\ {e.tie_breaker : e \in Pushed} = (tie_breaker + 1)..tie_breaker'
        /\ Cardinality(Pushed) = tie_breaker' - tie_breaker

\* C17: the tie-breakers of the frontier entries are pairwise distinct and
\* assigned in strictly increasing insertion order (each push takes a value
\* above every value assigned before); the entry popped next is the least in
\* (f_cost, tie_breaker), the earlier inserted first among equal f_costs; no
\* two entries agree on both, so the comparison never reaches the states.
C17_TieBreakers ==
    /\ [](pc = "search" =>
            /\ Cardinality({e.tie_breaker : e \in Entries}) = Len(frontier)
            /\ \A e \in Entries : e.tie_breaker <= tie_breaker
            /\ \A i \in 2..Len(frontier) :
                  \/ Popped.f_cost < frontier[i].f_cost
                  \/ /\ Popped.f_cost = frontier[i].f_cost
                     /\ Popped.tie_breaker < frontier[i].tie_breaker)
    /\ [][PushedTiesFresh]_vars

C17_Witness ==
    /\ pc = "search"
    /\ Len(frontier) >= 3
    /\ frontier[1].f_cost = frontier[2].f_cost
    /\ frontier[1].tie_breaker < frontier[2].tie_breaker
    /\ frontier[3].tie_breaker < frontier[2].tie_breaker
    /\ frontier[2].f_cost < frontier[3].f_cost

\* the entry about to be popped is one that the loop will expand
AboutToExpand ==
    /\ pc = "search"
    /\ frontier # <<>>
    /\ ~IsSolved(Popped.puzzle)
    /\ Popped.puzzle.state \notin explored

\* the children pushed by an expansion extend the path of the expanded entry
\* by one move and are recorded at that length
ChildrenCostPathLength ==
    pc = "search" =>
        \A e \in Pushed :
            /\ Len(e.moves) = Len(Popped.moves) + 1
            /\ CostOf(g_costs', e.puzzle.state) = Len(e.moves)

\* every entry that a step places on the frontier, the initial one included,
\* holds the state that its moves lead to from the caller's puzzle
PushedPathLeadsToState ==
    \A e \in Pushed : Eq(ApplyMoves(puzzle', e.moves), e.puzzle)

\* C20: for every frontier entry, applying its moves in order to the initial
\* state yields its state (stated of each entry when it is placed on the
\* frontier and again when it is the next to be popped); when an entry is
\* expanded, len(moves) equals g_costs[state] at that moment, so the children
\* are costed with the length of the path stored in the expanded entry.
C20_PathMatchesState ==
    /\ [][PushedPathLeadsToState]_vars
    /\ []((pc = "search" /\ frontier # <<>>) =>
            Eq(ApplyMoves(puzzle, Popped.moves), Popped.puzzle))
    /\ [](AboutToExpand =>
            /\ InCosts(g_costs, Popped.puzzle.state)
            /\ Len(Popped.moves) = CostOf(g_costs, Popped.puzzle.state))
    /\ [][ChildrenCostPathLength]_vars

C20_Witness ==
    /\ AboutToExpand
    /\ Len(frontier) > 3
    /\ Len(Popped.moves) = 3
    /\ CostOf(g_costs, Popped.puzzle.state) = 3
    /\ Eq(ApplyMoves(puzzle, Popped.moves), Popped.puzzle)
    /\ ~Eq(puzzle, Popped.puzzle)

(***************************************************************************)
(* Properties of the main block                                            *)
(***************************************************************************)
\* the explored-node count that a_star_solve returned to the main block for
\* heuristic h
ExploredBy(h) ==
    LET i == CHOOSE i \in 1..Len(experiments) : experiments[i].heuristic = h
    IN  experiments[i].explored_nodes

AllExperimentsRun == pc = "main" /\ Len(experiments) = Len(MainHeuristics)

\* C11: for the fixture grid [[1,3,6],[5,4,7],[2,0,8]] the explored-node
\* counts returned by a_star_solve are ordered: zero >= misplaced tiles >=
\* Manhattan distance >= linear conflict.
C11_ExploredOrdering ==
    (AllExperimentsRun /\ initial_state = FixtureGrid) =>
        /\ ExploredBy("heuristic_zero") >= ExploredBy("heuristic_misplaced_tiles")
        /\ ExploredBy("heuristic_misplaced_tiles")
              >= ExploredBy("heuristic_manhattan_distance")
        /\ ExploredBy("heuristic_manhattan_distance")
              >= ExploredBy("heuristic_linear_conflict")

C11_Witness ==
    /\ AllExperimentsRun
    /\ initial_state = FixtureGrid
    /\ ExploredBy("heuristic_zero") = 15763
    /\ ExploredBy("heuristic_misplaced_tiles") = 1018
    /\ ExploredBy("heuristic_manhattan_distance") = 232
    /\ ExploredBy("heuristic_linear_conflict") = 165

(***************************************************************************)
(* Frame properties                                                        *)
(***************************************************************************)
\* no object of the store changes in a step: the store only grows
ObjectsUnchanged ==
    /\ Len(objects') >= Len(objects)
    /\ \A ref \in DOMAIN objects : objects'[ref] = objects[ref]

\* a call of result() makes one new object, the receiver's state with the
\* move applied, and leaves the receiver as it was
ResultLeavesReceiver ==
    (pc = "ready" /\ pc' = "ready" /\ objects' # objects) =>
        /\ Len(objects') = Len(objects) + 1
        /\ \E ref \in DOMAIN objects, d \in Directions \cup {"diagonal"} :
              /\ objects'[ref] = objects[ref]
              /\ objects'[Len(objects')] = Move(objects[ref], d)

\* every key of the closed set and of the cost map still has the hash value
\* it was inserted with, and every frontier entry holds an object
KeysIntact ==
    pc \in {"search", "returned"} =>
        /\ \A m \in explored \cup g_costs :
              m.ref \in DOMAIN objects /\ m.hash = Hash(objects[m.ref].state)
        /\ \A i \in 1..Len(frontier) : frontier[i].puzzle \in DOMAIN objects

\* C18: result(move) never changes the receiver, for any direction, legal
\* or not; a_star_solve leaves the caller's puzzle unchanged, and no object
\* held in the frontier, the cost map or the closed set changes after it was
\* inserted (no object of the store changes in any step of the search, and
\* no lookup raises KeyError).
C18_ReceiverUnchanged ==
    /\ [][ObjectsUnchanged]_vars
    /\ [][ResultLeavesReceiver]_vars
    /\ []KeysIntact
    /\ [](pc # "error")

C18_Witness ==
    /\ pc = "returned"
    /\ Len(objects) > 2 * MaxObjDist
    /\ objects[1] # objects[2]
    /\ ~IsSolved(objects[puzzle])
    /\ result.moves # <<>>
    /\ result = AStarSolve(objects[puzzle], heuristic_func)

Min(a, b) == IF a < b THEN a ELSE b

\* the number of moves of the solution being replayed
ReplayLength == Len(animation.solution_moves)

\* after k clicks: the counter is min(k, n), and the puzzle shown is the
\* initial state with the first min(k, n) moves applied in order
ReplayInStep ==
    pc = "show" =>
        /\ animation.solution_moves = result.moves
        /\ animation.step_counter = Min(clicks, ReplayLength)
        /\ animation.step_counter <= ReplayLength
        /\ animation.puzzle =
              ApplyMoves(EightPuzzle(initial_state),
                         SubSeq(animation.solution_moves, 1, Min(clicks, ReplayLength)))

\* the k-th click applies solution_moves[k-1] (0-based) and nothing else; a
\* click after the n-th changes neither the puzzle nor the counter
ClickAppliesNextMove ==
    (pc = "show" /\ clicks' = clicks + 1) =>
        IF clicks < ReplayLength
          THEN /\ animation'.puzzle =
                    Move(animation.puzzle, animation.solution_moves[clicks + 1])
               /\ animation'.step_counter = animation.step_counter + 1
               /\ animation'.solution_moves = animation.solution_moves
          ELSE animation' = animation

\* C19: in the replay driven by on_click, from a fresh copy of the initial
\* state and a step counter of 0, after k clicks the puzzle shown is the
\* initial state with the first min(k, n) solution moves applied in order and
\* the counter is min(k, n), never above n; the k-th click applies exactly
\* solution_moves[k-1]; clicks after the n-th change nothing.
C19_Replay ==
    /\ []ReplayInStep
    /\ [][ClickAppliesNextMove]_vars

C19_Witness ==
    /\ pc = "show"
    /\ initial_state = FixtureGrid
    /\ ReplayLength = 17
    /\ clicks = ReplayLength + 2
    /\ animation.step_counter = ReplayLength
    /\ IsSolved(animation.puzzle)

=============================================================================
